---------------------------- MODULE Spec2Model ----------------------------
(***************************************************************************)
(* A model of the Amazon product crawler: AmazonCrawler.crawl_products     *)
(* (src/src/crawler.py) with the components it drives: AmazonAuth          *)
(* (src/src/auth.py), RobotsChecker (src/src/robots.py), AmazonSearcher    *)
(* (src/src/search.py), AmazonParser (src/src/parser.py) and ReviewCrawler *)
(* (src/src/review_crawler.py).                                            *)
(*                                                                         *)
(* Text is a sequence of one-character strings, so that strip() and the    *)
(* numeric-token regular expressions are computed, not assumed.  A rating  *)
(* is kept in hundredths (4.5 is 450), rounded down: comparisons against   *)
(* thresholds given in hundredths are exact.                               *)
(*                                                                         *)
(* The network, the console, the browser and the file system are the       *)
(* environment: each call into them is a nondeterministic choice among the *)
(* outcomes the call can have.                                             *)
(***************************************************************************)
EXTENDS Integers, Sequences, FiniteSets, TLC

(***************************************************************************)
(* Bounds of the model.                                                    *)
(***************************************************************************)
\* listing blocks / review blocks matched by one selector on one page
MaxBlocks == 2
\* largest max_pages / max_review_pages
MaxPages == 2
\* can_crawl calls made on one RobotsChecker
MaxRobotsCalls == 3

(***************************************************************************)
(* Program constants.                                                      *)
(***************************************************************************)
\* search.py:63  max_retries = 3
max_retries == 3
\* crawler.py:78  max_reviews_per_page=10
CrawlerReviewsPerPage == 10
\* auth.py:126  response.status_code == 200
HTTP_OK == 200

None == "None"

(***************************************************************************)
(* Text helpers.                                                           *)
(***************************************************************************)
Digits == {"0", "1", "2", "3", "4", "5", "6", "7", "8", "9"}

DigitVal(c) ==
    CASE c = "0" -> 0 [] c = "1" -> 1 [] c = "2" -> 2 [] c = "3" -> 3
      [] c = "4" -> 4 [] c = "5" -> 5 [] c = "6" -> 6 [] c = "7" -> 7
      [] c = "8" -> 8 [] c = "9" -> 9

IsSpace(c) == c = " "

\* str.strip(): leading and trailing whitespace removed
RECURSIVE LStrip(_)
LStrip(s) == IF s # <<>> /\ IsSpace(Head(s)) THEN LStrip(Tail(s)) ELSE s

RECURSIVE RStrip(_)
RStrip(s) ==
    IF s # <<>> /\ IsSpace(s[Len(s)]) THEN RStrip(SubSeq(s, 1, Len(s) - 1)) ELSE s

Strip(s) == RStrip(LStrip(s))

\* the longest run of digits of s that starts at index i (i may be Len(s)+1)
RECURSIVE DigitRunEnd(_, _)
DigitRunEnd(s, i) ==
    IF i <= Len(s) /\ s[i] \in Digits THEN DigitRunEnd(s, i + 1) ELSE i

\* index of the first digit of s at or after i, or 0
RECURSIVE FirstDigit(_, _)
FirstDigit(s, i) ==
    IF i > Len(s) THEN 0
    ELSE IF s[i] \in Digits THEN i ELSE FirstDigit(s, i + 1)

\* value of a run of digits
RECURSIVE DigitsToInt(_)
DigitsToInt(ds) ==
    IF ds = <<>> THEN 0
    ELSE 10 * DigitsToInt(SubSeq(ds, 1, Len(ds) - 1)) + DigitVal(ds[Len(ds)])

\* Python's s[:n] for n >= 0
Take(s, n) == SubSeq(s, 1, IF n < Len(s) THEN n ELSE Len(s))


(***************************************************************************)
(* Markup.  A node is the text of the element a selector finds, or None    *)
(* when the selector finds nothing.  An element (a listing block or a      *)
(* review block) gives, per field, the nodes its ordered selectors find.   *)
(***************************************************************************)
T_A == <<" ", "A", " ">>
T_B == <<"B">>
T_C == <<"C">>
T_blank == <<" ">>
T_r == <<"r">>
T_r_padded == <<" ", "r", " ">>
T_45 == <<"4", ".", "5", " ", "o">>
T_3 == <<"3">>
T_garbage == <<"x">>

\* select_one found an element with this text / found nothing
Node(t) == [found |-> TRUE, text |-> t]
NoNode == [found |-> FALSE, text |-> <<>>]

\* a URL, by the identifier each of the three patterns of review_crawler.py
\* finds in it (None: the pattern does not match); NoUrl: no a[href] at all
Url(enc, dp, product) == [present |-> TRUE, enc |-> enc, dp |-> dp, product |-> product]
NoUrl == [present |-> FALSE, enc |-> None, dp |-> None, product |-> None]
UrlDp == Url(None, "B000000001", None)
UrlEncDp == Url("B000000002", "B000000001", None)
UrlNoAsin == Url(None, None, None)
UrlProduct == Url(None, None, "B000000003")

\* a listing block of a search page
BlkA == [title |-> <<NoNode, Node(T_A)>>, price |-> <<NoNode>>, rating |-> <<Node(T_45)>>,
         url |-> UrlDp, raises |-> FALSE]
BlkB == [title |-> <<Node(T_B)>>, price |-> <<Node(T_3)>>,
         rating |-> <<Node(T_blank), Node(T_3)>>,
         url |-> NoUrl, raises |-> FALSE]
BlkC == [title |-> <<Node(T_C)>>, price |-> <<NoNode>>, rating |-> <<Node(T_garbage)>>,
         url |-> UrlNoAsin, raises |-> FALSE]
BlkNoTitle == [title |-> <<Node(T_blank), NoNode>>, price |-> <<NoNode>>,
               rating |-> <<Node(T_45)>>, url |-> UrlDp, raises |-> FALSE]
BlkRaises == [title |-> <<Node(T_A)>>, price |-> <<NoNode>>, rating |-> <<Node(T_45)>>,
              url |-> UrlDp, raises |-> TRUE]
Blocks == {BlkA, BlkB, BlkC, BlkNoTitle, BlkRaises}

\* a review block of a reviews page: the body found by the first selector,
\* found padded by the last one, not found (blank, empty or missing), or a
\* block whose extraction raises
RevGood == [name |-> <<Node(T_A)>>, rating |-> <<Node(T_45)>>, title |-> <<Node(T_B)>>,
            text |-> <<Node(T_r)>>, raises |-> FALSE]
RevPadded == [name |-> <<Node(T_A)>>, rating |-> <<Node(T_45)>>, title |-> <<Node(T_B)>>,
              text |-> <<Node(T_blank), NoNode, Node(T_r_padded)>>, raises |-> FALSE]
RevNoBody == [name |-> <<Node(T_A)>>, rating |-> <<Node(T_45)>>, title |-> <<Node(T_B)>>,
              text |-> <<Node(T_blank), Node(<<>>), NoNode>>, raises |-> FALSE]
RevRaises == [name |-> <<Node(T_A)>>, rating |-> <<Node(T_45)>>, title |-> <<Node(T_B)>>,
              text |-> <<Node(T_r)>>, raises |-> TRUE]
ReviewBlocks == {RevGood, RevPadded, RevNoBody, RevRaises}

\* all sequences over S of length at most n
SeqsUpTo(S, n) == UNION {[1..k -> S] : k \in 0..n}

(***************************************************************************)
(* AmazonParser and the extraction helpers of AmazonSearcher.              *)
(***************************************************************************)
\* faulty variant: the text of the first node found is taken as it is, unstripped
RECURSIVE _extract_text_unstripped(_)
_extract_text_unstripped(nodes) ==
    IF nodes = <<>> THEN <<>>
    ELSE IF Head(nodes).found /\ Head(nodes).text # <<>>
         THEN Head(nodes).text
         ELSE _extract_text_unstripped(Tail(nodes))

\* the first selector whose node has non-empty stripped text wins; "" if none
RECURSIVE _extract_text_by_selectors(_)
_extract_text_by_selectors(nodes) ==
    IF nodes = <<>> THEN <<>>
    ELSE IF Head(nodes).found /\ Strip(Head(nodes).text) # <<>>
         THEN Strip(Head(nodes).text)
         ELSE _extract_text_by_selectors(Tail(nodes))

\* float(re.findall(r'\d+\.?\d*', text)[0]) in hundredths, 0 without a token
_parse_rating(rating_text) ==
    LET i == FirstDigit(rating_text, 1)
        j == DigitRunEnd(rating_text, i)
        hasDot == j <= Len(rating_text) /\ rating_text[j] = "."
        k == IF hasDot THEN j + 1 ELSE j
        m == DigitRunEnd(rating_text, k)
        frac == SubSeq(rating_text, k, m - 1)
        f1 == IF Len(frac) >= 1 THEN DigitVal(frac[1]) ELSE 0
        f2 == IF Len(frac) >= 2 THEN DigitVal(frac[2]) ELSE 0
    IN  IF rating_text = <<>> \/ i = 0 THEN 0
        ELSE 100 * DigitsToInt(SubSeq(rating_text, i, j - 1)) + 10 * f1 + f2

\* one review block: <<review>>, or <<>> (Python's None) unless a body text is found
_extract_single_review(element) ==
    LET reviewer_name == _extract_text_by_selectors(element.name)
        rating == _parse_rating(_extract_text_by_selectors(element.rating))
        review_title == _extract_text_by_selectors(element.title)
        review_text == _extract_text_by_selectors(element.text)
    IN  IF element.raises THEN <<>>
        ELSE IF review_text # <<>>
        THEN <<[reviewer_name |-> IF reviewer_name # <<>> THEN Strip(reviewer_name)
                                ELSE <<"A", "n", "o", "n">>,
              rating |-> rating,
              title |-> IF review_title # <<>> THEN Strip(review_title) ELSE <<>>,
              text |-> Strip(review_text)]>>
        ELSE <<>>

\* the reviews of the blocks of the first selector that matches any block
RECURSIVE ExtractReviews(_)
ExtractReviews(elements) ==
    IF elements = <<>> THEN <<>>
    ELSE _extract_single_review(Head(elements)) \o ExtractReviews(Tail(elements))

\* the element list of the first selector with any match
RECURSIVE FirstMatching(_)
FirstMatching(bySelector) ==
    IF bySelector = <<>> THEN <<>>
    ELSE IF Head(bySelector) # <<>> THEN Head(bySelector)
         ELSE FirstMatching(Tail(bySelector))

parse_reviews(soup) == ExtractReviews(FirstMatching(soup))

\* faulty variant: any rated product is kept, whatever the threshold
filter_by_rating_any_rated(products, min_rating) ==
    SelectSeq(products, LAMBDA product : product.rating > 0)

filter_by_rating(products, min_rating) ==
    SelectSeq(products, LAMBDA product : product.rating >= min_rating)

\* faulty variant: every listing is created with an empty 'reviews' entry
_extract_product_info_with_reviews(element) ==
    LET title == _extract_text_by_selectors(element.title)
        price == _extract_text_by_selectors(element.price)
        rating == _parse_rating(_extract_text_by_selectors(element.rating))
    IN  IF element.raises THEN <<>>
        ELSE IF title # <<>>
        THEN <<[title |-> Strip(title),
              price |-> IF price # <<>> THEN Strip(price) ELSE <<"N", "/", "A">>,
              rating |-> rating,
              url |-> element.url,
              has_reviews |-> TRUE,
              reviews |-> <<>>]>>
        ELSE <<>>

\* one listing block: <<product>>, or <<>> (Python's None) unless a title is found
_extract_product_info(element) ==
    LET title == _extract_text_by_selectors(element.title)
        price == _extract_text_by_selectors(element.price)
        rating == _parse_rating(_extract_text_by_selectors(element.rating))
    IN  IF element.raises THEN <<>>
        ELSE IF title # <<>>
        THEN <<[title |-> Strip(title),
              price |-> IF price # <<>> THEN Strip(price) ELSE <<"N", "/", "A">>,
              rating |-> rating,
              url |-> element.url,
              has_reviews |-> FALSE,
              reviews |-> <<>>]>>
        ELSE <<>>

\* faulty variant: the first block that yields no listing ends the batch
RECURSIVE ExtractProductsUntilFailure(_)
ExtractProductsUntilFailure(elements) ==
    IF elements = <<>> THEN <<>>
    ELSE IF _extract_product_info(Head(elements)) = <<>> THEN <<>>
    ELSE _extract_product_info(Head(elements)) \o ExtractProductsUntilFailure(Tail(elements))

RECURSIVE ExtractProducts(_)
ExtractProducts(elements) ==
    IF elements = <<>> THEN <<>>
    ELSE _extract_product_info(Head(elements)) \o ExtractProducts(Tail(elements))

\* faulty variant: the blocks are not capped at max_results
_parse_search_results_uncapped(soup, max_results) ==
    ExtractProducts(FirstMatching(soup))

_parse_search_results(soup, max_results) ==
    ExtractProducts(Take(FirstMatching(soup), max_results))

\* parser.py:143-156  the same code as _parse_rating
_parse_rating_from_text(rating_text) == _parse_rating(rating_text)

\* int(re.findall(r'\d+', text)[0]), 0 without a token
_parse_helpful_votes(helpful_text) ==
    LET i == FirstDigit(helpful_text, 1)
    IN  IF helpful_text = <<>> \/ i = 0 THEN 0
        ELSE DigitsToInt(SubSeq(helpful_text, i, DigitRunEnd(helpful_text, i) - 1))

(***************************************************************************)
(* ReviewCrawler helpers.                                                  *)
(***************************************************************************)
\* faulty variant: the plain /dp/ pattern is tried before the URL-encoded one
_extract_asin_dp_first(url) ==
    IF url.dp # None THEN url.dp
    ELSE IF url.enc # None THEN url.enc
    ELSE IF url.product # None THEN url.product
    ELSE None

\* the patterns in order: URL-encoded /dp/, plain /dp/, plain /product/
_extract_asin_from_url(url) ==
    IF url.enc # None THEN url.enc
    ELSE IF url.dp # None THEN url.dp
    ELSE IF url.product # None THEN url.product
    ELSE None

_get_reviews_url(product_url) == _extract_asin_from_url(product_url)

(***************************************************************************)
(* The environment's answers.                                              *)
(***************************************************************************)
\* a URL a request or the browser lands on, by the substrings the code tests
Landed(amazon, signin, ap_signin, ap) ==
    [amazon |-> amazon, signin |-> signin, ap_signin |-> ap_signin, ap |-> ap]
LandedHome == Landed(TRUE, FALSE, FALSE, FALSE)
LandedApSignin == Landed(TRUE, TRUE, TRUE, TRUE)
LandedOtherSignin == Landed(TRUE, TRUE, FALSE, FALSE)
LandedApOther == Landed(TRUE, FALSE, FALSE, TRUE)
LandedElsewhere == Landed(FALSE, FALSE, FALSE, FALSE)

\* the liveness probe of is_authenticated: the GET raises, or answers
ProbeRaises == [made |-> TRUE, raises |-> TRUE, status |-> 0, url |-> LandedHome]
ProbeAnswer(status, url) == [made |-> TRUE, raises |-> FALSE, status |-> status, url |-> url]
NoProbe == [made |-> FALSE, raises |-> FALSE, status |-> 0, url |-> LandedHome]
ProbeOutcomes ==
    {ProbeRaises} \cup
    {ProbeAnswer(st, u) : st \in {HTTP_OK, 204, 503},
                          u \in {LandedHome, LandedApSignin, LandedOtherSignin}}

\* the cookie file: missing, a JSON array of cookie records, or not loadable
CookieFiles == {"absent", "valid", "corrupt"}

\* console input: a line, or end of input
Line(t) == [eof |-> FALSE, text |-> t]
EndOfInput == [eof |-> TRUE, text |-> <<>>]
PromptInputs == {Line(<<"y">>), Line(<<"Y">>), Line(<<"n">>), Line(<<>>), EndOfInput}
ChoiceInputs == {Line(<<"1">>), Line(<<"2">>), Line(<<" ", "2", " ">>), Line(<<"x">>), EndOfInput}

LowerChar(c) == IF c = "Y" THEN "y" ELSE IF c = "N" THEN "n" ELSE c
Lower(t) == [i \in 1..Len(t) |-> LowerChar(t[i])]

\* the page the browser shows when the login indicators are evaluated
Page(url, account_list, signin_link) ==
    [url |-> url, account_list |-> account_list, signin_link |-> signin_link]
Pages ==
    {Page(u, a, l) : u \in {LandedHome, LandedApSignin, LandedElsewhere},
                     a \in 0..1, l \in 0..1}

\* what GET /robots.txt does inside RobotFileParser.read()
RobotsFetches ==
    {"raises", "http_403", "http_404", "http_503",
     "ok_no_rules", "ok_allow", "ok_disallow"}

\* what one GET of the search page does
SearchGets == {"ok", "RequestException", "Exception"}

\* a parsed page: per container selector, in order, the blocks it matches
SearchSoups ==
    {<<first, <<>>, <<>>>> : first \in SeqsUpTo(Blocks, MaxBlocks)}
    \cup {<<<<>>, <<BlkB, BlkA>>, <<BlkC>>>>, <<<<>>, <<>>, <<BlkC>>>>}

\* a page of k review blocks, the i-th of them b and the others well-formed
PageWith(k, i, b) == [j \in 1..k |-> IF j = i THEN b ELSE RevGood]

ReviewSoups ==
    {<<PageWith(k, i, b), <<>>>> : k \in 0..MaxBlocks, i \in 1..MaxBlocks, b \in ReviewBlocks}
    \cup {<<<<>>, <<RevPadded>>>>, <<<<RevNoBody, RevRaises>>, <<RevGood>>>>}

\* what one GET of a reviews page does: it fails, or answers a page
ReviewGets == {[ok |-> FALSE, soup |-> <<>>]} \cup {[ok |-> TRUE, soup |-> sp] : sp \in ReviewSoups}

\* helpful-vote statements and rating texts a page can hold
T_15_people == <<"1", "5", " ", "p">>
T_1234_people == <<"1", ",", "2", "3", "4", " ", "p">>
T_5_out == <<"5", " ", "o">>
T_45_plain == <<"4", "5">>
HelpfulTexts == {T_15_people, T_1234_people, T_3, T_garbage, T_blank, <<>>}
RatingTexts == {T_45, T_5_out, T_3, T_45_plain, T_garbage, T_blank, <<>>}

\* the arguments callers pass: min_rating in hundredths, max_results
MinRatings == {0, 400}
MaxResultsArgs == {1, 2}

(***************************************************************************)
(* State.                                                                  *)
(***************************************************************************)
VARIABLES
    pc,                \* where the caller's thread is
    steps,             \* the pipeline steps of crawl_products, in the order begun
    result,            \* the value returned to the caller
    \* crawl_products: arguments and locals
    min_rating, max_results, requested_reviews, crawl_reviews, max_review_pages,
    products, idx,
    \* AmazonAuth
    cookies_file,      \* cookies.json on disk
    session_cookies,   \* the shared requests.Session holds the persisted cookies
    last_probe,        \* the probe GET of the last is_authenticated call
    is_auth_answer,    \* what is_authenticated returned: "none", "True" or "False"
    auth_result,       \* how authenticate() ended: "none", "True", "False", "EOFError"
    \* RobotsChecker
    robot_parser,      \* the RobotFileParser held by the checker
    robots_log,        \* per can_crawl call: the fetch it made and its answer
    \* AmazonSearcher.search_products
    attempt, get_log, backoff,
    product_elements,  \* how many listing blocks the winning selector matched
    search_soup,       \* the parsed search page, while search_products' result is fresh
    \* ReviewCrawler.crawl_product_reviews
    caller, product_url, max_pages, max_reviews_per_page,
    reviews_url,       \* the identifier the reviews URL is built on, or None
    current_page, all_reviews, page_log, review_gets,
    \* AmazonAuth._save_cookies
    file_written,      \* cookies.json was opened for writing in this run
    \* a parsing helper called on its own: the text given and the value returned
    parsed

argVars == <<min_rating, max_results, requested_reviews, max_review_pages>>
authVars == <<cookies_file, session_cookies, last_probe, is_auth_answer, auth_result>>
robotsVars == <<robot_parser, robots_log>>
searchVars == <<attempt, get_log, backoff, product_elements, search_soup>>
reviewVars == <<caller, product_url, max_pages, max_reviews_per_page, reviews_url,
                current_page, all_reviews, page_log, review_gets>>
vars == <<pc, steps, result, argVars, crawl_reviews, products, idx,
          authVars, robotsVars, searchVars, reviewVars, file_written, parsed>>

\* a parsing helper has not been called / was called on text and returned value
NotParsed == [fn |-> "none", text |-> <<>>, value |-> 0]
Parsed(fn, text, value) == [fn |-> fn, text |-> text, value |-> value]

\* RobotFileParser.__init__
NewRobotFileParser ==
    [disallow_all |-> FALSE, allow_all |-> FALSE, last_checked |-> FALSE,
     default_entry |-> "none"]

Init ==
    /\ pc = "idle"
    /\ steps = <<>>
    /\ result = <<>>
    /\ min_rating = 0 /\ max_results = 1
    /\ requested_reviews = FALSE /\ crawl_reviews = FALSE
    /\ max_review_pages = 0
    /\ products = <<>> /\ idx = 1
    /\ cookies_file \in CookieFiles
    /\ session_cookies = FALSE
    /\ last_probe = NoProbe
    /\ is_auth_answer = "none"
    /\ auth_result = "none"
    /\ robot_parser = NewRobotFileParser
    /\ robots_log = <<>>
    /\ attempt = 0 /\ get_log = <<>> /\ backoff = <<>>
    /\ product_elements = 0
    /\ search_soup = <<>>
    /\ caller = "none" /\ product_url = NoUrl
    /\ max_pages = 0 /\ max_reviews_per_page = 0
    /\ reviews_url = None
    /\ current_page = 1 /\ all_reviews = <<>> /\ page_log = <<>>
    /\ review_gets = 0
    /\ file_written = FALSE
    /\ parsed = NotParsed

(***************************************************************************)
(* AmazonAuth.is_authenticated                                             *)
(***************************************************************************)
\* faulty variant: the landed URL is not looked at
is_authenticated_by_status(file, probe) ==
    IF file = "absent" THEN FALSE
    ELSE IF file = "corrupt" THEN FALSE
    ELSE IF probe.raises THEN FALSE
    ELSE probe.status = HTTP_OK

\* the answer, from the cookie file found and the outcome of the probe GET
is_authenticated(file, probe) ==
    IF file = "absent" THEN FALSE
    ELSE IF file = "corrupt" THEN FALSE         \* _load_cookies raises
    ELSE IF probe.raises THEN FALSE
    ELSE IF probe.status = HTTP_OK
         THEN ~probe.url.ap_signin /\ ~probe.url.signin
         ELSE FALSE

\* whether is_authenticated gets as far as the probe GET
ProbeIssued(file) == file = "valid"

\* crawler.py:50  `crawl_reviews and not self.auth.is_authenticated()`
IsAuthenticated ==
    /\ pc = "is_authenticated"
    /\ \E probe \in ProbeOutcomes :
        LET p == IF ProbeIssued(cookies_file) THEN probe ELSE NoProbe
            answer == is_authenticated(cookies_file, p)
        IN  /\ last_probe' = p
            /\ session_cookies' = (session_cookies \/ cookies_file = "valid")
            /\ is_auth_answer' = IF answer THEN "True" ELSE "False"
            /\ pc' = IF answer THEN "can_crawl" ELSE "prompt"
    /\ steps' = Append(steps, "auth")
    /\ UNCHANGED <<result, argVars, crawl_reviews, products, idx, cookies_file,
                   auth_result, robotsVars, searchVars, reviewVars>>
    /\ UNCHANGED <<file_written, parsed>>

\* crawler.py:52-60  the "Authenticate now? (y/n)" prompt; the frame of
\* is_authenticated is gone
Prompt ==
    /\ pc = "prompt"
    /\ \E answer \in PromptInputs :
        IF ~answer.eof /\ Lower(answer.text) = <<"y">>
        THEN /\ pc' = "authenticate"
             /\ UNCHANGED crawl_reviews
        ELSE /\ pc' = "can_crawl"
             /\ crawl_reviews' = FALSE
    /\ last_probe' = NoProbe
    /\ UNCHANGED <<steps, result, argVars, products, idx, cookies_file,
                   session_cookies, is_auth_answer, auth_result,
                   robotsVars, searchVars, reviewVars>>
    /\ UNCHANGED <<file_written, parsed>>

(***************************************************************************)
(* AmazonAuth.authenticate and _manual_authenticate                        *)
(***************************************************************************)
\* any(login_indicators)
login_indicators(page) ==
    \/ page.url.amazon /\ ~page.url.ap_signin
    \/ page.url.amazon /\ ~page.url.signin
    \/ page.url.amazon /\ ~page.url.ap
    \/ page.account_list > 0
    \/ page.signin_link = 0

\* faulty variant: a failed authenticate() leaves crawl_reviews as it was
AuthReturnsKeepsReviews(v) ==
    /\ auth_result' = IF v THEN "True" ELSE "False"
    /\ UNCHANGED crawl_reviews
    /\ pc' = "can_crawl"

\* authenticate() returned v to crawl_products (crawler.py:54-56)
AuthReturns(v) ==
    /\ auth_result' = IF v THEN "True" ELSE "False"
    /\ crawl_reviews' = v
    /\ pc' = "can_crawl"

\* auth.py:33-36  the method choice; input() is outside the try block
AuthChoice ==
    /\ pc = "authenticate"
    /\ \E choice \in ChoiceInputs :
        IF choice.eof
        THEN \* EOFError leaves authenticate(); caught at crawler.py:59
             /\ auth_result' = "EOFError"
             /\ crawl_reviews' = FALSE
             /\ pc' = "can_crawl"
        ELSE /\ pc' = IF Strip(choice.text) = <<"2">> THEN "manual" ELSE "automatic"
             /\ UNCHANGED <<auth_result, crawl_reviews>>
    /\ UNCHANGED <<steps, result, argVars, products, idx, cookies_file,
                   session_cookies, last_probe, is_auth_answer,
                   robotsVars, searchVars, reviewVars>>
    /\ UNCHANGED <<file_written, parsed>>

\* auth.py:38-99  the scripted flow up to the success check
AuthAutomatic ==
    /\ pc = "automatic"
    /\ \/ \E failure \in {"input_eof", "browser_error", "email_error", "password_error"} :
            AuthReturns(FALSE)
       \/ \E page \in Pages :
            IF login_indicators(page)
            THEN pc' = "save_cookies" /\ UNCHANGED <<auth_result, crawl_reviews>>
            ELSE AuthReturns(FALSE)
    /\ UNCHANGED <<steps, result, argVars, products, idx, cookies_file,
                   session_cookies, last_probe, is_auth_answer,
                   robotsVars, searchVars, reviewVars>>
    /\ UNCHANGED <<file_written, parsed>>

\* auth.py:140-171  the manual flow up to the success check
AuthManual ==
    /\ pc = "manual"
    /\ \/ \E failure \in {"browser_error", "input_eof"} : AuthReturns(FALSE)
       \/ \E page \in Pages :
            IF login_indicators(page)
            THEN pc' = "save_cookies" /\ UNCHANGED <<auth_result, crawl_reviews>>
            ELSE AuthReturns(FALSE)
    /\ UNCHANGED <<steps, result, argVars, products, idx, cookies_file,
                   session_cookies, last_probe, is_auth_answer,
                   robotsVars, searchVars, reviewVars>>
    /\ UNCHANGED <<file_written, parsed>>

\* auth.py:100-105, 133-136  _save_cookies, browser.close(), return True
SaveCookies ==
    /\ pc = "save_cookies"
    /\ \/ /\ cookies_file' = "valid"            \* written; close() succeeds
          /\ file_written' = TRUE
          /\ AuthReturns(TRUE)
       \/ /\ UNCHANGED cookies_file            \* open() raises
          /\ UNCHANGED file_written
          /\ AuthReturns(FALSE)
       \/ /\ cookies_file' = "corrupt"          \* json.dump raises part-way
          /\ file_written' = TRUE
          /\ AuthReturns(FALSE)
       \/ /\ cookies_file' = "valid"            \* written; browser.close() raises
          /\ file_written' = TRUE
          /\ AuthReturns(FALSE)
    /\ UNCHANGED <<steps, result, argVars, products, idx,
                   session_cookies, last_probe, is_auth_answer,
                   robotsVars, searchVars, reviewVars>>
    /\ UNCHANGED parsed

(***************************************************************************)
(* RobotsChecker.can_crawl, with urllib.robotparser.RobotFileParser as the *)
(* standard library implements it: read() handles an HTTP error status     *)
(* itself (401/403 set disallow_all, other 4xx set allow_all, anything     *)
(* else changes nothing) and raises only on other failures; parse() marks  *)
(* the parser as checked and keeps the first default ("*") entry it ever   *)
(* saw; can_fetch() answers from those fields.                             *)
(***************************************************************************)
\* whether read() raises (URLError, timeout, undecodable body)
ReadRaises(fetch) == fetch = "raises"

\* RobotFileParser.read() on a parser, when it does not raise
RobotFileParser_read(parser, fetch) ==
    CASE fetch = "http_403" -> [parser EXCEPT !.disallow_all = TRUE]
      [] fetch = "http_404" -> [parser EXCEPT !.allow_all = TRUE]
      [] fetch = "http_503" -> parser
      [] fetch = "ok_no_rules" -> [parser EXCEPT !.last_checked = TRUE]
      [] fetch = "ok_allow" ->
            [parser EXCEPT !.last_checked = TRUE,
                           !.default_entry = IF @ = "none" THEN "allow" ELSE @]
      [] fetch = "ok_disallow" ->
            [parser EXCEPT !.last_checked = TRUE,
                           !.default_entry = IF @ = "none" THEN "disallow" ELSE @]
      [] OTHER -> parser

\* RobotFileParser.can_fetch("*", path)
RobotFileParser_can_fetch(parser) ==
    IF parser.disallow_all THEN FALSE
    ELSE IF parser.allow_all THEN TRUE
    ELSE IF ~parser.last_checked THEN FALSE
    ELSE IF parser.default_entry # "none" THEN parser.default_entry = "allow"
    ELSE TRUE

\* the answer of can_crawl: the except branch returns True
can_crawl(parser, fetch) ==
    IF ReadRaises(fetch) THEN TRUE
    ELSE RobotFileParser_can_fetch(RobotFileParser_read(parser, fetch))

\* faulty variant: robots.txt is read only while no parse is cached
FetchesRobotsOnce(parser) == ~parser.last_checked

\* whether this call of can_crawl fetches robots.txt (it always does: there is
\* no test of an earlier parse before read())
FetchesRobots(parser) == TRUE

\* the effect of one can_crawl call on the checker
CanCrawlCall(fetch) ==
    /\ robot_parser' = IF FetchesRobots(robot_parser) /\ ~ReadRaises(fetch)
                       THEN RobotFileParser_read(robot_parser, fetch)
                       ELSE robot_parser
    /\ robots_log' = Append(robots_log,
                            [fetched |-> FetchesRobots(robot_parser),
                             fetch |-> fetch,
                             answer |-> IF FetchesRobots(robot_parser)
                                        THEN can_crawl(robot_parser, fetch)
                                        ELSE RobotFileParser_can_fetch(robot_parser)])

\* a caller using the checker on its own
CanCrawlDirect ==
    /\ pc \in {"idle", "robots_only"}
    /\ Len(robots_log) < MaxRobotsCalls
    /\ \E fetch \in RobotsFetches : CanCrawlCall(fetch)
    /\ pc' = "robots_only"
    /\ UNCHANGED <<steps, result, argVars, crawl_reviews, products, idx,
                   authVars, searchVars, reviewVars>>
    /\ UNCHANGED <<file_written, parsed>>

\* faulty variant: the answer of the robots check is not looked at
CanCrawlGateIgnoresAnswer ==
    /\ pc = "can_crawl"
    /\ \E fetch \in RobotsFetches : CanCrawlCall(fetch)
    /\ steps' = Append(steps, "robots")
    /\ pc' = "search_products" /\ UNCHANGED result
    /\ last_probe' = NoProbe
    /\ UNCHANGED <<argVars, crawl_reviews, products, idx, cookies_file,
                   session_cookies, is_auth_answer, auth_result,
                   searchVars, reviewVars>>
    /\ UNCHANGED <<file_written, parsed>>

\* crawler.py:62-63  the robots gate of crawl_products; the frame of
\* is_authenticated is gone
CanCrawlGate ==
    /\ pc = "can_crawl"
    /\ \E fetch \in RobotsFetches : CanCrawlCall(fetch)
    /\ steps' = Append(steps, "robots")
    /\ IF robots_log'[Len(robots_log')].answer
       THEN pc' = "search_products" /\ UNCHANGED result
       ELSE pc' = "done" /\ result' = <<>>
    /\ last_probe' = NoProbe
    /\ UNCHANGED <<argVars, crawl_reviews, products, idx, cookies_file,
                   session_cookies, is_auth_answer, auth_result,
                   searchVars, reviewVars>>
    /\ UNCHANGED <<file_written, parsed>>

(***************************************************************************)
(* AmazonSearcher.search_products                                          *)
(***************************************************************************)
\* 2 ** attempt
Pow2(n) == IF n = 0 THEN 1 ELSE IF n = 1 THEN 2 ELSE 4

\* faulty variant: the last attempt is retried too
RetriesOnceMore(n) == n < max_retries

\* search.py:70  whether a failed attempt is retried
Retries(n) == n < max_retries - 1

\* search.py:64-74, 85-90  one pass through the retry loop: the GET succeeds,
\* fails and is retried after a backoff sleep, or fails for good, in which case
\* the handlers of search_products make it return []
SearchGet ==
    /\ pc = "search_products"
    /\ \E outcome \in SearchGets :
        /\ get_log' = Append(get_log, outcome)
        /\ IF outcome = "ok"
           THEN /\ pc' = "parse_search_results"
                /\ UNCHANGED <<attempt, backoff, products>>
           ELSE IF outcome = "RequestException" /\ Retries(attempt)
           THEN /\ backoff' = Append(backoff, Pow2(attempt))
                /\ attempt' = attempt + 1
                /\ UNCHANGED <<pc, products>>
           ELSE /\ products' = <<>>
                /\ pc' = "search_returns"
                /\ UNCHANGED <<attempt, backoff>>
    /\ steps' = IF get_log = <<>> THEN Append(steps, "search") ELSE steps
    /\ UNCHANGED <<result, argVars, crawl_reviews, idx, authVars, robotsVars,
                   product_elements, search_soup, reviewVars>>
    /\ UNCHANGED <<file_written, parsed>>

\* search.py:76-83  the page is parsed and the listings are returned
ParseSearchResults ==
    /\ pc = "parse_search_results"
    /\ \E soup \in SearchSoups :
        /\ products' = _parse_search_results(soup, max_results)
        /\ product_elements' = Len(FirstMatching(soup))
        /\ search_soup' = soup
    /\ steps' = Append(steps, "extract")
    /\ pc' = "filter"
    /\ attempt' = 0 /\ get_log' = <<>> /\ backoff' = <<>>
    /\ UNCHANGED <<result, argVars, crawl_reviews, idx, authVars, robotsVars, reviewVars>>
    /\ UNCHANGED <<file_written, parsed>>

\* search.py:87, 90  return []
SearchReturnsEmpty ==
    /\ pc = "search_returns"
    /\ pc' = "filter"
    /\ attempt' = 0 /\ get_log' = <<>> /\ backoff' = <<>>
    /\ UNCHANGED <<product_elements, search_soup>>
    /\ UNCHANGED <<steps, result, argVars, crawl_reviews, products, idx, authVars,
                   robotsVars, reviewVars>>
    /\ UNCHANGED <<file_written, parsed>>

\* faulty variant: the authentication step comes after the rating filter
FilterThenAuthenticate ==
    /\ pc = "filter"
    /\ products' = IF min_rating > 0 THEN filter_by_rating(products, min_rating)
                   ELSE products
    /\ steps' = IF min_rating > 0 THEN Append(steps, "filter") ELSE steps
    /\ idx' = 1
    /\ IF crawl_reviews
       THEN pc' = "is_authenticated" /\ UNCHANGED result
       ELSE pc' = "done" /\ result' = products'
    /\ product_elements' = 0
    /\ search_soup' = <<>>
    /\ UNCHANGED <<argVars, crawl_reviews, authVars, robotsVars, attempt, get_log,
                   backoff, reviewVars>>
    /\ UNCHANGED <<file_written, parsed>>

\* crawler.py:68-71  the rating filter and the branch on crawl_reviews; the
\* frame of search_products is gone
Filter ==
    /\ pc = "filter"
    /\ products' = IF min_rating > 0 THEN filter_by_rating(products, min_rating)
                   ELSE products
    /\ steps' = IF min_rating > 0 THEN Append(steps, "filter") ELSE steps
    /\ idx' = 1
    /\ IF crawl_reviews
       THEN pc' = "reviews" /\ UNCHANGED result
       ELSE pc' = "done" /\ result' = products'
    /\ product_elements' = 0
    /\ search_soup' = <<>>
    /\ UNCHANGED <<argVars, crawl_reviews, authVars, robotsVars, attempt, get_log,
                   backoff, reviewVars>>
    /\ UNCHANGED <<file_written, parsed>>

(***************************************************************************)
(* ReviewCrawler.crawl_product_reviews                                     *)
(***************************************************************************)
\* faulty variant: the reviews of a page are not cut to max_reviews
_crawl_reviews_page_untruncated(get, max_reviews) ==
    IF get.ok THEN parse_reviews(get.soup) ELSE <<>>

\* review_crawler.py:96-116  one page: a failure of the GET yields []
_crawl_reviews_page(get, max_reviews) ==
    IF get.ok THEN Take(parse_reviews(get.soup), max_reviews) ELSE <<>>

\* whether a page has a review block in which no selector finds a body text
HasBodiless(soup) ==
    \E i \in 1..Len(FirstMatching(soup)) :
        LET element == FirstMatching(soup)[i]
        IN  ~element.raises /\ \A j \in 1..Len(element.text) :
                ~element.text[j].found \/ Strip(element.text[j].text) = <<>>

\* review_crawler.py:48  the loop test
MorePages(page, limit) == page <= limit

\* faulty variant: a page without reviews does not end the loop
StopsOnNothing(reviews) == FALSE

\* review_crawler.py:55-56  a page without reviews ends the loop
StopsOn(reviews) == reviews = <<>>

\* crawl_product_reviews returns v: to crawl_products (crawler.py:80), where
\* the frame of the call is gone, or to a caller of its own
ReviewsReturn(v) ==
    IF caller = "crawl_products"
    THEN /\ products' = [products EXCEPT ![idx].has_reviews = TRUE,
                                         ![idx].reviews = v]
         /\ idx' = idx + 1
         /\ pc' = "reviews"
         /\ caller' = "none" /\ product_url' = NoUrl
         /\ max_pages' = 0 /\ max_reviews_per_page' = 0
         /\ reviews_url' = None
         /\ current_page' = 1 /\ all_reviews' = <<>> /\ page_log' = <<>>
         /\ UNCHANGED result
    ELSE /\ result' = v
         /\ pc' = "done"
         /\ UNCHANGED <<products, idx, caller, product_url, max_pages,
                        max_reviews_per_page, reviews_url, current_page>>

\* entry of crawl_product_reviews (review_crawler.py:39-46)
ReviewsEnter(url, pages, per_page, who) ==
    /\ caller' = who
    /\ product_url' = url
    /\ max_pages' = pages
    /\ max_reviews_per_page' = per_page
    /\ reviews_url' = None
    /\ current_page' = 1
    /\ all_reviews' = <<>>
    /\ page_log' = <<>>
    /\ pc' = "get_reviews_url"

\* crawler.py:72-80  the loop over the surviving listings
ReviewsNext ==
    /\ pc = "reviews"
    /\ IF idx > Len(products)
       THEN /\ pc' = "done"
            /\ result' = products
            /\ UNCHANGED <<idx, steps, reviewVars>>
       ELSE IF ~products[idx].url.present
       THEN /\ idx' = idx + 1
            /\ UNCHANGED <<pc, result, steps, reviewVars>>
       ELSE /\ ReviewsEnter(products[idx].url, max_review_pages,
                            CrawlerReviewsPerPage, "crawl_products")
            /\ steps' = IF idx = 1 \/ steps[Len(steps)] # "reviews"
                        THEN Append(steps, "reviews") ELSE steps
            /\ UNCHANGED <<idx, result, review_gets>>
    /\ UNCHANGED <<argVars, crawl_reviews, products, authVars, robotsVars, searchVars>>
    /\ UNCHANGED <<file_written, parsed>>

\* a caller using the review crawler on its own
CrawlProductReviewsDirect ==
    /\ pc = "idle"
    /\ \E url \in {UrlDp, UrlEncDp, UrlProduct, UrlNoAsin}, pages \in 0..MaxPages,
          per_page \in 0..MaxBlocks :
        ReviewsEnter(url, pages, per_page, "direct")
    /\ UNCHANGED <<steps, result, argVars, crawl_reviews, products, idx,
                   authVars, robotsVars, searchVars, review_gets>>
    /\ UNCHANGED <<file_written, parsed>>

\* review_crawler.py:43-46  no identifier, no crawl
GetReviewsUrl ==
    /\ pc = "get_reviews_url"
    /\ IF _get_reviews_url(product_url) = None
       THEN /\ ReviewsReturn(<<>>)
            /\ IF caller = "crawl_products"
               THEN TRUE ELSE UNCHANGED <<all_reviews, page_log>>
       ELSE /\ pc' = "review_pages"
            /\ reviews_url' = _get_reviews_url(product_url)
            /\ UNCHANGED <<result, products, idx, caller, product_url, max_pages,
                           max_reviews_per_page, current_page, all_reviews, page_log>>
    /\ UNCHANGED <<steps, argVars, crawl_reviews, authVars, robotsVars,
                   searchVars, review_gets>>
    /\ UNCHANGED <<file_written, parsed>>

\* review_crawler.py:48-65  the loop test and one pass through the loop
ReviewPage ==
    /\ pc = "review_pages"
    /\ IF ~MorePages(current_page, max_pages)
       THEN /\ ReviewsReturn(all_reviews)
            /\ IF caller = "crawl_products"
               THEN TRUE ELSE UNCHANGED <<all_reviews, page_log>>
            /\ UNCHANGED review_gets
       ELSE \E get \in ReviewGets :
              LET reviews == _crawl_reviews_page(get, max_reviews_per_page)
                  log == Append(page_log, [page |-> current_page,
                                           empty |-> reviews = <<>>,
                                           failed |-> ~get.ok,
                                           kept |-> Len(reviews),
                                           bodiless |-> get.ok /\ HasBodiless(get.soup)])
              IN  /\ review_gets' = review_gets + 1
                  /\ IF StopsOn(reviews)
                     THEN /\ ReviewsReturn(all_reviews)
                          /\ IF caller = "crawl_products"
                             THEN TRUE
                             ELSE page_log' = log /\ UNCHANGED all_reviews
                     ELSE /\ all_reviews' = all_reviews \o reviews
                          /\ current_page' = current_page + 1
                          /\ page_log' = log
                          /\ UNCHANGED <<pc, result, products, idx, caller, product_url,
                                         max_pages, max_reviews_per_page, reviews_url>>
    /\ UNCHANGED <<steps, argVars, crawl_reviews, authVars, robotsVars, searchVars>>
    /\ UNCHANGED <<file_written, parsed>>

(***************************************************************************)
(* AmazonCrawler.crawl_products                                            *)
(***************************************************************************)
\* crawler.py:33-50  the call, up to the test of crawl_reviews
CrawlProducts ==
    /\ pc = "idle"
    /\ \E mr \in MinRatings, n \in MaxResultsArgs, cr \in BOOLEAN, pages \in 0..MaxPages :
        /\ min_rating' = mr
        /\ max_results' = n
        /\ requested_reviews' = cr
        /\ crawl_reviews' = cr
        /\ max_review_pages' = pages
        /\ pc' = IF cr THEN "is_authenticated" ELSE "can_crawl"
    /\ UNCHANGED <<steps, result, products, idx, authVars, robotsVars,
                   searchVars, reviewVars>>
    /\ UNCHANGED <<file_written, parsed>>

\* the parsing helpers called on their own
ParseHelpfulVotesDirect ==
    /\ pc = "idle"
    /\ \E text \in HelpfulTexts :
        parsed' = Parsed("_parse_helpful_votes", text, _parse_helpful_votes(text))
    /\ pc' = "parsed"
    /\ UNCHANGED <<steps, result, argVars, crawl_reviews, products, idx,
                   authVars, robotsVars, searchVars, reviewVars, file_written>>

ParseRatingDirect ==
    /\ pc = "idle"
    /\ \E text \in RatingTexts :
        \/ parsed' = Parsed("_parse_rating", text, _parse_rating(text))
        \/ parsed' = Parsed("_parse_rating_from_text", text, _parse_rating_from_text(text))
    /\ pc' = "parsed"
    /\ UNCHANGED <<steps, result, argVars, crawl_reviews, products, idx,
                   authVars, robotsVars, searchVars, reviewVars, file_written>>

Next ==
    \/ CrawlProducts
    \/ IsAuthenticated
    \/ Prompt
    \/ AuthChoice
    \/ AuthAutomatic
    \/ AuthManual
    \/ SaveCookies
    \/ CanCrawlGate
    \/ SearchGet
    \/ ParseSearchResults
    \/ SearchReturnsEmpty
    \/ Filter
    \/ ReviewsNext
    \/ GetReviewsUrl
    \/ ReviewPage
    \/ CrawlProductReviewsDirect
    \/ CanCrawlDirect
    \/ ParseHelpfulVotesDirect
    \/ ParseRatingDirect

Spec == Init /\ [][Next]_vars

(***************************************************************************)
(* Properties.                                                             *)
(***************************************************************************)
\* crawl_products has returned
CrawlDone == pc = "done" /\ caller # "direct"

\* crawl_product_reviews, called on its own, has returned
ReviewsDone == pc = "done" /\ caller = "direct"

StepSet == {steps[i] : i \in 1..Len(steps)}

AuthPcs == {"is_authenticated", "prompt", "authenticate", "automatic", "manual",
            "save_cookies"}

ReviewPcs == {"reviews", "get_reviews_url", "review_pages"}

\* C1: with min_rating > 0, every listing crawl_products returns (and every
\* listing it still works on after the rating filter) has rating >= min_rating,
\* whatever was fetched and whichever authentication and review path was taken.
C1_RatingAtLeastMin ==
    min_rating > 0 =>
        /\ CrawlDone => \A i \in 1..Len(result) : result[i].rating >= min_rating
        /\ pc \in ReviewPcs =>
               \A i \in 1..Len(products) : products[i].rating >= min_rating

\* a filtered, non-empty result whose first listing got reviews attached
C1_Witness ==
    /\ CrawlDone /\ min_rating > 0 /\ "filter" \in StepSet
    /\ result # <<>> /\ result[1].has_reviews /\ result[1].reviews # <<>>

\* C2: the list search_products returns, and so the list crawl_products
\* returns, is no longer than max_results, however many blocks the page has.
C2_AtMostMaxResults ==
    /\ Len(products) <= max_results
    /\ CrawlDone => Len(result) <= max_results

\* the page had more blocks than max_results and max_results listings came back
C2_Witness ==
    /\ pc = "filter" /\ product_elements > max_results
    /\ Len(products) = max_results

\* C3: the review pages of one listing are fetched in the order 1, 2, ...;
\* no page is fetched after the first page without reviews; at most max_pages
\* pages are fetched (none when max_pages is 0).
C3_Pagination ==
    /\ \A i \in 1..Len(page_log) : page_log[i].page = i
    /\ Len(page_log) <= max_pages
    /\ \A i \in 1..Len(page_log) : page_log[i].empty => i = Len(page_log)
    /\ caller = "direct" => review_gets = Len(page_log)

\* the first page had no reviews and the second page, though allowed, was not fetched
C3_Witness ==
    /\ ReviewsDone /\ max_pages = 2
    /\ Len(page_log) = 1 /\ page_log[1].empty

HasBodies(reviews) == \A i \in 1..Len(reviews) : Strip(reviews[i].text) # <<>>

\* C4: no review with an empty or whitespace-only body is in a sequence
\* parse_reviews / crawl_product_reviews returns, accumulates or attaches to a
\* listing: a block without a body text is dropped whatever else it holds.
C4_ReviewsHaveBodies ==
    /\ HasBodies(all_reviews)
    /\ ReviewsDone => HasBodies(result)
    /\ \A i \in 1..Len(products) : HasBodies(products[i].reviews)
    /\ CrawlDone => \A i \in 1..Len(result) : HasBodies(result[i].reviews)

\* a page with a body-less block (which has reviewer, rating and title) among
\* blocks that were kept
C4_Witness ==
    /\ ReviewsDone /\ result # <<>>
    /\ \E i \in 1..Len(page_log) : page_log[i].bodiless /\ ~page_log[i].empty

\* C5: search_products makes at most 3 GET attempts; each attempt before the
\* last one failed with a transient failure and was followed by a sleep of
\* 2^i seconds (i the 0-based attempt); no GET follows a successful one; after
\* a third failure the function returns an empty list.
C5_Retries ==
    /\ Len(get_log) <= 3
    /\ \A i \in 1..(Len(get_log) - 1) : get_log[i] = "RequestException"
    /\ \A i \in 1..Len(backoff) : backoff[i] = 2 ^ (i - 1)
    /\ Len(backoff) = attempt
    /\ pc = "search_products" => Len(get_log) = Len(backoff)
    /\ pc = "parse_search_results" =>
           get_log[Len(get_log)] = "ok" /\ Len(backoff) = Len(get_log) - 1
    /\ pc = "search_returns" =>
           /\ products = <<>>
           /\ get_log[Len(get_log)] # "ok"
           /\ Len(backoff) = Len(get_log) - 1
    /\ (Len(get_log) = 3 /\ \A i \in 1..3 : get_log[i] = "RequestException") =>
           pc = "search_returns" /\ products = <<>>

\* three transient failures, two backoff sleeps, and the empty list returned
C5_Witness ==
    /\ pc = "search_returns" /\ products = <<>>
    /\ get_log = <<"RequestException", "RequestException", "RequestException">>
    /\ backoff = <<1, 2>>

\* C6: can_crawl answers true whenever the fetch or parse of robots.txt fails
\* in any way, and false for a path under an explicit Disallow rule when the
\* fetch succeeds.
C6_FailsOpen ==
    \A i \in 1..Len(robots_log) :
        /\ robots_log[i].fetch \in {"raises", "http_403", "http_404", "http_503"}
               => robots_log[i].answer
        /\ robots_log[i].fetch = "ok_disallow" => ~robots_log[i].answer

\* C7 as stated: after a successful first fetch, no later can_crawl call on the
\* same checker fetches robots.txt again.
C7_FetchedOnce ==
    (Len(robots_log) > 0 /\ robots_log[1].fetch \in {"ok_no_rules", "ok_allow", "ok_disallow"})
        => \A i \in 2..Len(robots_log) : ~robots_log[i].fetched

\* C7 amended: nothing is cached across calls as far as fetching goes: every
\* can_crawl call on one RobotsChecker fetches robots.txt itself, also after a
\* successful first fetch, and answers from the parser as that read left it.
C7_FetchedEveryCall ==
    \A i \in 1..Len(robots_log) :
        /\ robots_log[i].fetched
        /\ (i = Len(robots_log) /\ ~ReadRaises(robots_log[i].fetch))
               => robots_log[i].answer = RobotFileParser_can_fetch(robot_parser)

\* a second call that fetched again after a successful first fetch
C7_Witness ==
    /\ Len(robots_log) >= 2
    /\ robots_log[1].fetch = "ok_allow"
    /\ robots_log[2].fetched

\* the place of a step in the order the claim gives / in the order of the code
ClaimedRank(step) ==
    CASE step = "robots" -> 1 [] step = "search" -> 2 [] step = "extract" -> 3
      [] step = "filter" -> 4 [] step = "auth" -> 5 [] step = "reviews" -> 6

CodeRank(step) ==
    CASE step = "auth" -> 0 [] step = "robots" -> 1 [] step = "search" -> 2
      [] step = "extract" -> 3 [] step = "filter" -> 4 [] step = "reviews" -> 6

\* C8 as stated: the steps of one run begin in the order robots check, search
\* fetch, listing extraction, rating filter, authentication, review pagination.
C8_AuthAfterFilter ==
    \A i, j \in 1..Len(steps) : i < j => ClaimedRank(steps[i]) < ClaimedRank(steps[j])

\* C8 amended: the steps of one run begin in the order authentication (when
\* reviews were requested), robots check, search fetch, listing extraction,
\* rating filter, review pagination; the authentication step is over before
\* the robots check begins and is never entered again.
C8_AuthFirst ==
    /\ \A i, j \in 1..Len(steps) : i < j => CodeRank(steps[i]) < CodeRank(steps[j])
    /\ pc \in AuthPcs => StepSet \subseteq {"auth"}

\* a run that took every step
C8_Witness ==
    /\ CrawlDone
    /\ steps = <<"auth", "robots", "search", "extract", "filter", "reviews">>

\* reviews were requested, the session was found not authenticated, and the
\* authentication step ended without a successful login
FellBack ==
    /\ requested_reviews /\ is_auth_answer = "False" /\ auth_result # "True"
    /\ pc \notin AuthPcs

GatePermitted == robots_log # <<>> /\ robots_log[Len(robots_log)].answer

NoReviewsAttached(listings) == \A i \in 1..Len(listings) : ~listings[i].has_reviews

C9_State ==
    FellBack =>
        /\ review_gets = 0
        /\ pc \notin ReviewPcs
        /\ NoReviewsAttached(products)
        /\ (pc = "done" /\ GatePermitted) =>
               /\ "search" \in StepSet
               /\ result = products
               /\ min_rating > 0 => \A i \in 1..Len(result) : result[i].rating >= min_rating

C9_Step ==
    /\ (pc \in AuthPcs /\ pc' \notin AuthPcs) => pc' = "can_crawl"
    /\ (FellBack /\ pc = "can_crawl" /\ GatePermitted') => pc' = "search_products"
    /\ (FellBack /\ pc = "filter") =>
           /\ pc' = "done"
           /\ result' = IF min_rating > 0
                        THEN SelectSeq(products, LAMBDA l : l.rating >= min_rating)
                        ELSE products

C10_FailsClosed ==
    /\ pc \in (AuthPcs \ {"is_authenticated"}) => is_auth_answer = "False"
    /\ (is_auth_answer = "True" /\ pc = "can_crawl") =>
           /\ cookies_file = "valid" /\ session_cookies
           /\ last_probe.made /\ ~last_probe.raises
           /\ last_probe.status = 200
           /\ ~last_probe.url.signin /\ ~last_probe.url.ap_signin
    /\ (pc = "prompt" /\ last_probe.made) =>
           \/ last_probe.raises
           \/ last_probe.status # 200
           \/ last_probe.url.signin
    /\ (pc = "prompt" /\ ~last_probe.made) => cookies_file # "valid"
    /\ last_probe.made => cookies_file = "valid"

\* true after a probe that answered 200 on the home page
C10_Witness ==
    /\ pc = "can_crawl" /\ is_auth_answer = "True"
    /\ last_probe = ProbeAnswer(200, LandedHome)

\* C11 as stated: authenticate() always ends by returning a boolean to its
\* caller (Success or Failure): no exception raised at any step of it leaves
\* authenticate() as an exception.
C11_AuthenticateReturnsBoolean ==
    auth_result \in {"none", "True", "False"}

\* none of the three identifier patterns matches the URL
NoPattern(url) == url.enc = None /\ url.dp = None /\ url.product = None

C12_State ==
    /\ (caller # "none" /\ NoPattern(product_url)) =>
           pc # "review_pages" /\ page_log = <<>> /\ all_reviews = <<>>
    /\ (ReviewsDone /\ NoPattern(product_url)) => result = <<>> /\ review_gets = 0
    /\ pc = "review_pages" =>
           /\ product_url.enc # None => reviews_url = product_url.enc
           /\ (product_url.enc = None /\ product_url.dp # None) =>
                  reviews_url = product_url.dp
           /\ (product_url.enc = None /\ product_url.dp = None) =>
                  reviews_url = product_url.product

C12_Step ==
    (pc = "get_reviews_url" /\ NoPattern(product_url)) =>
        /\ review_gets' = review_gets
        /\ pc' \in {"done", "reviews"}
        /\ caller = "direct" => result' = <<>>
        /\ caller = "crawl_products" =>
               products'[idx].has_reviews /\ products'[idx].reviews = <<>>

\* C12: for a listing URL that none of the patterns (URL-encoded /dp/, plain
\* /dp/, plain /product/) matches, crawl_product_reviews returns the empty
\* sequence without fetching any page; otherwise the identifier is the one
\* the URL-encoded pattern finds, else the one after /dp/, else the one
\* after /product/.
C12_IdentifierOrNoCrawl == []C12_State /\ [][C12_Step]_vars

\* a run in which a listing without identifier got the empty sequence and a
\* listing with /dp/<ID> got reviews
C12_Witness ==
    /\ CrawlDone
    /\ \E i, j \in 1..Len(result) :
        /\ result[i].url = UrlNoAsin /\ result[i].has_reviews /\ result[i].reviews = <<>>
        /\ result[j].url = UrlDp /\ result[j].reviews # <<>>

\* the number of reviews the logged pages gave
RECURSIVE SumKept(_)
SumKept(log) == IF log = <<>> THEN 0 ELSE Head(log).kept + SumKept(Tail(log))

IsPrefix(s, t) == Len(s) <= Len(t) /\ SubSeq(t, 1, Len(s)) = s

C13_State ==
    /\ \A i \in 1..Len(page_log) :
        /\ page_log[i].failed => i = Len(page_log) /\ page_log[i].kept = 0
        /\ page_log[i].kept <= max_reviews_per_page
    /\ (pc = "review_pages" \/ ReviewsDone) => Len(all_reviews) = SumKept(page_log)
    /\ ReviewsDone => result = all_reviews

C13_Step ==
    /\ (pc = "review_pages" /\ pc' = "review_pages") => IsPrefix(all_reviews, all_reviews')
    /\ (pc = "review_pages" /\ pc' # "review_pages") =>
           /\ caller = "direct" => result' = all_reviews
           /\ caller = "crawl_products" => products'[idx].reviews = all_reviews

\* C13: when the fetch or parse of review page k fails, crawl_product_reviews
\* fetches no later page and returns the reviews accumulated from the pages
\* before it, each page cut to max_reviews_per_page, in page order; what was
\* accumulated is never lost and nothing is raised.
C13_PartialResultsKept == []C13_State /\ [][C13_Step]_vars

\* page 2 failed after page 1 gave reviews, and those reviews were returned
C13_Witness ==
    /\ ReviewsDone /\ Len(page_log) = 2
    /\ ~page_log[1].failed /\ page_log[1].kept > 0
    /\ page_log[2].failed
    /\ Len(result) = page_log[1].kept

\* C14 as stated: helpful-votes parsing strips thousands separators and
\* returns the first integer token: "15 people ..." gives 15, "1,234 people
\* ..." gives 1234, the empty text gives 0.
C14_HelpfulVotes ==
    parsed.fn = "_parse_helpful_votes" =>
        /\ parsed.text = T_15_people => parsed.value = 15
        /\ parsed.text = T_1234_people => parsed.value = 1234
        /\ parsed.text = <<>> => parsed.value = 0

\* C15 as stated: every rating that extraction produces is between 0.0 and
\* 5.0 inclusive (0 to 500 hundredths), whatever the rating text is.
C15_RatingInRange ==
    /\ parsed.fn \in {"_parse_rating", "_parse_rating_from_text"} =>
           parsed.value >= 0 /\ parsed.value <= 500
    /\ \A i \in 1..Len(products) : products[i].rating >= 0 /\ products[i].rating <= 500
    /\ \A i \in 1..Len(all_reviews) :
           all_reviews[i].rating >= 0 /\ all_reviews[i].rating <= 500

\* C16 as stated: every listing crawl_products returns carries a reviews
\* sequence, which is empty unless review crawling was requested and
\* succeeded for that listing.
C16_EveryListingCarriesReviews ==
    CrawlDone => \A i \in 1..Len(result) :
        /\ result[i].has_reviews
        /\ result[i].reviews # <<>> => requested_reviews

\* C16 amended: a listing crawl_products returns has a 'reviews' entry if and
\* only if review crawling was still on after the authentication step and the
\* listing has a URL; the entry then holds what crawl_product_reviews gave
\* for it (possibly nothing).  Every other listing has no 'reviews' entry.
C16_ReviewsOnlyWhenCrawled ==
    /\ CrawlDone => \A i \in 1..Len(result) :
        /\ result[i].has_reviews <=> (crawl_reviews /\ result[i].url.present)
        /\ ~result[i].has_reviews => result[i].reviews = <<>>
        /\ result[i].reviews # <<>> => requested_reviews
    /\ \A i \in 1..Len(products) :
        products[i].has_reviews =>
            crawl_reviews /\ products[i].url.present /\ pc \in ReviewPcs \cup {"done"}

\* reviews were crawled: one listing got its entry, one without URL got none
C16_Witness ==
    /\ CrawlDone /\ crawl_reviews
    /\ \E i, j \in 1..Len(result) :
        /\ result[i].has_reviews /\ result[i].reviews # <<>>
        /\ ~result[j].has_reviews /\ ~result[j].url.present

\* the blocks of the first container selector that matches any block
Winning(soup) ==
    IF \A k \in 1..Len(soup) : soup[k] = <<>> THEN <<>>
    ELSE soup[CHOOSE k \in 1..Len(soup) :
                  soup[k] # <<>> /\ \A h \in 1..(k - 1) : soup[h] = <<>>]

\* the j-th title selector of a block finds a non-blank text
TitleAt(block, j) == block.title[j].found /\ Strip(block.title[j].text) # <<>>

\* the block is extracted without error and has a title
Titled(block) == ~block.raises /\ \E j \in 1..Len(block.title) : TitleAt(block, j)

\* the listing comes from the block: its title is the first non-blank one
FromBlock(listing, block) ==
    /\ listing.url = block.url
    /\ \E j \in 1..Len(block.title) :
        /\ TitleAt(block, j) /\ \A h \in 1..(j - 1) : ~TitleAt(block, h)
        /\ listing.title = Strip(block.title[j].text)

\* C17: a listing block whose extraction fails or that has no title is
\* dropped and the batch goes on: the list _parse_search_results returns is
\* exactly the titled, successfully extracted blocks among the first
\* max_results blocks of the first matching container selector, in document
\* order.
C17_DropsOnlyBadBlocks ==
    pc = "filter" /\ search_soup # <<>> =>
        LET blocks == Winning(search_soup)
            n == IF max_results < Len(blocks) THEN max_results ELSE Len(blocks)
            kept == SelectSeq([k \in 1..n |-> blocks[k]], Titled)
        IN  /\ Len(products) = Len(kept)
            /\ \A i \in 1..Len(kept) : FromBlock(products[i], kept[i])

\* the first block fails or has no title, the second one is extracted
C17_Witness ==
    /\ pc = "filter" /\ max_results = 2 /\ Len(products) = 1
    /\ Len(Winning(search_soup)) = 2
    /\ ~Titled(Winning(search_soup)[1]) /\ Titled(Winning(search_soup)[2])

SearchPcs == {"search_products", "parse_search_results", "search_returns", "filter"}

C19_State ==
    /\ (CrawlDone /\ "robots" \in StepSet /\ ~GatePermitted) =>
           /\ result = <<>> /\ products = <<>>
           /\ StepSet \cap {"search", "extract", "filter", "reviews"} = {}
           /\ get_log = <<>> /\ review_gets = 0
    /\ (pc \in SearchPcs \/ (pc \in ReviewPcs /\ caller # "direct")) => GatePermitted

C19_Step ==
    (pc = "can_crawl" /\ ~GatePermitted') =>
        pc' = "done" /\ result' = <<>> /\ get_log' = <<>> /\ review_gets' = 0

\* C19: when the robots check for the search path answers not-permitted,
\* crawl_products returns the empty list and makes no search request and no
\* review-page request in that run.
C19_GateStopsTheRun == []C19_State /\ [][C19_Step]_vars

\* an authenticated run with reviews requested, stopped at the robots gate
C19_Witness ==
    /\ CrawlDone /\ "robots" \in StepSet /\ ~GatePermitted
    /\ requested_reviews /\ crawl_reviews /\ is_auth_answer = "True"
    /\ result = <<>>

\* C20 as stated: whenever crawl_products fetches a review page, the shared
\* HTTP session already holds the persisted login cookies, after
\* is_authenticated() returned true as well as after authenticate() succeeded
\* during the run.
C20_SessionHoldsCookies ==
    (requested_reviews /\ review_gets > 0) => session_cookies

=============================================================================
